---- MODULE Spec2Model ----
(***************************************************************************)
(* Model of streamlit_app.py (AI Notes Translator): the audio validity     *)
(* gate is_audio_valid, the pivot translator translate_via_english, the    *)
(* speech block text_to_speech_block and the two script pipelines (audio   *)
(* mode and text mode) that wire them together.                            *)
(*                                                                         *)
(* A Python str is the sequence of its Unicode code points.  A value that  *)
(* may be a str, None or a raised exception is a record [kind, val] with   *)
(* kind "str", "none" or "raise".                                          *)
(***************************************************************************)
EXTENDS Integers, Sequences, FiniteSets, TLC

(***************************************************************************)
(* Bounds of the model.                                                    *)
(***************************************************************************)
\* longest text the user types into a text area
MaxLen == 3
\* longest decoded waveform, in samples
MaxSamples == 3
\* script runs of one session that the pipeline specification follows
MaxRuns == 3

(***************************************************************************)
(* Python str helpers.                                                     *)
(***************************************************************************)
\* the code points of " ", "," and "." (lines 99-100), and of a tab and of
\* the letter a
Space == 32
Comma == 44
Period == 46
Tab == 9
LetterA == 97

\* the code points str.strip() and str.split() treat as whitespace, which
\* are those of str.isspace(): U+0009-000D, U+001C-0020, U+0085, U+00A0,
\* U+1680, U+2000-200A, U+2028, U+2029, U+202F, U+205F, U+3000
WhiteSpace ==
    (9..13) \cup (28..32) \cup {133, 160, 5760} \cup (8192..8202)
        \cup {8232, 8233, 8239, 8287, 12288}

\* characters the bounded texts are built from
Alphabet == {Space, Tab, LetterA, Comma, Period}

Texts == UNION {[1..n -> Alphabet] : n \in 0..MaxLen}

IsSpace(c) == c \in WhiteSpace

RECURSIVE LStrip(_)
LStrip(s) ==
    IF s = <<>> THEN <<>>
    ELSE IF IsSpace(Head(s)) THEN LStrip(Tail(s))
    ELSE s

RECURSIVE RStrip(_)
RStrip(s) ==
    IF s = <<>> THEN <<>>
    ELSE IF IsSpace(s[Len(s)]) THEN RStrip(SubSeq(s, 1, Len(s) - 1))
    ELSE s

\* a strip() that was left out
Strip_Omitted(s) == s

\* str.strip()
Strip(s) == RStrip(LStrip(s))

\* str.replace(old, new) for a non-empty old: left to right, non-overlapping
RECURSIVE Replace(_, _, _)
Replace(s, old, new) ==
    IF Len(s) < Len(old) THEN s
    ELSE IF SubSeq(s, 1, Len(old)) = old
         THEN new \o Replace(SubSeq(s, Len(old) + 1, Len(s)), old, new)
         ELSE <<Head(s)>> \o Replace(Tail(s), old, new)

\* the first word of s (s starts with a non-whitespace character)
RECURSIVE WordLen(_)
WordLen(s) ==
    IF s = <<>> \/ IsSpace(Head(s)) THEN 0
    ELSE 1 + WordLen(Tail(s))

\* str.split(): the maximal runs of non-whitespace characters
RECURSIVE Split(_)
Split(s) ==
    LET t == LStrip(s)
        n == WordLen(t)
    IN  IF t = <<>> THEN <<>>
        ELSE <<SubSeq(t, 1, n)>> \o Split(SubSeq(t, n + 1, Len(t)))

\* sep.join(words)
RECURSIVE Join(_, _)
Join(sep, words) ==
    IF words = <<>> THEN <<>>
    ELSE IF Len(words) = 1 THEN words[1]
    ELSE words[1] \o sep \o Join(sep, Tail(words))

(***************************************************************************)
(* translate_via_english                                                   *)
(***************************************************************************)
\* the language codes of LANG_MAP the model follows ("en" and two others)
Langs == {"en", "hi", "kn"}

Str(s) == [kind |-> "str", val |-> s]
None == [kind |-> "none", val |-> <<>>]
Raise == [kind |-> "raise", val |-> <<>>]

\* what one GoogleTranslator(...).translate(...) call can do: return one of
\* these strings, return None, or raise
BackendTexts ==
    { <<>>, <<Space>>, <<LetterA>>, <<Space, LetterA, Space>>,
      <<LetterA, Space, Comma>>, <<LetterA, Tab, Comma>>,
      <<LetterA, Space, Space, Period>>, <<LetterA, Comma, Space, LetterA>>,
      <<160, LetterA, 8195, Comma>> }

BackendOutcomes == {Str(t) : t \in BackendTexts} \cup {None, Raise}

\* GoogleTranslator(source, target).translate(text): the backend validates
\* its payload and raises on a value that is not a str; otherwise it answers
\* with the outcome the service produces
BackendTranslate(text, outcome) ==
    IF text.kind # "str" THEN Raise ELSE outcome

\* lines 99-101 on a str
Clean(s) ==
    Strip(Join(<<Space>>,
               Split(Replace(Replace(s, <<Space, Comma>>, <<Comma>>),
                             <<Space, Period>>, <<Period>>))))

\* lines 99-101 on whatever text holds: a method call on None raises
PostProcess(text) ==
    IF text.kind = "str" THEN Str(Clean(text.val)) ELSE Raise

\* the result of a call: it returned value, or an exception left the function
Returned(v, calls) == [kind |-> "return", value |-> v, calls |-> calls]
Raised(calls) == [kind |-> "raise", value |-> <<>>, calls |-> calls]

\* no handler: the exception leaves the function
ExceptHandler_Propagates(calls) == Raised(calls)

\* lines 102-103: except Exception: return ""
ExceptHandler(calls) == Returned(<<>>, calls)

\* one entry of the log of backend calls
Call(source, target, input, outcome) ==
    [source |-> source, target |-> target, input |-> input, outcome |-> outcome]

\* a leg that is never skipped
NeedsLeg_Always(lang) == TRUE

\* line 87 and line 93: a leg is skipped when its language is English
NeedsLeg(lang) == lang # "en"

\* a second leg that translates the caller's text again
Leg2Input_Original(t0, t1) == t0

\* lines 88 and 97: the first leg's result is assigned to text, and text is
\* what the second leg translates
Leg2Input(t0, t1) == t1

\* translate_via_english(text, src_lang, tgt_lang), where b1 and b2 are what
\* the backend does on the first and on the second call that reaches it
translate_via_english(text, src, tgt, b1, b2) ==
    IF Strip(text) = <<>> THEN Returned(<<>>, <<>>)
    ELSE
      LET t0 == Str(text)
          t1 == IF NeedsLeg(src) THEN BackendTranslate(t0, b1) ELSE t0
          calls1 == IF NeedsLeg(src)
                    THEN <<Call(src, "en", t0, t1)>> ELSE <<>>
          b == IF NeedsLeg(src) THEN b2 ELSE b1
          in2 == Leg2Input(t0, t1)
          t2 == IF NeedsLeg(tgt) THEN BackendTranslate(in2, b) ELSE t1
          calls2 == IF NeedsLeg(tgt)
                    THEN Append(calls1, Call("en", tgt, in2, t2)) ELSE calls1
          t3 == PostProcess(t2)
      IN  IF t1.kind = "raise" THEN ExceptHandler(calls1)
          ELSE IF t2.kind = "raise" THEN ExceptHandler(calls2)
          ELSE IF t3.kind = "raise" THEN ExceptHandler(calls2)
          ELSE Returned(t3.val, calls2)

(***************************************************************************)
(* is_audio_valid                                                          *)
(*                                                                         *)
(* A file is missing, undecodable, or decodes to a waveform [sr, data].    *)
(* The data are 16-bit PCM, which is what convert_audio's ffmpeg command   *)
(* writes to a .wav: a sample is an integer k in -32768..32767 and sf.read *)
(* returns the float64 k / 32768.  On such data abs(data).mean() is the    *)
(* exact sum of the |k| / 32768 divided by len(data) and rounded once, and *)
(* that rounding never crosses the float64 1e-4, so the float comparison   *)
(* of line 72 is the comparison of the exact mean with 1e-4.  min_sec is   *)
(* in milliseconds (1000 to the second).                                   *)
(***************************************************************************)
\* min_sec's default, 0.5 s, in milliseconds
DefaultMinSecMs == 500

\* sample values k the bounded waveforms are built from: 3 / 32768 is under
\* 1e-4 and 4 / 32768 is over it
Amps == {-32768, 0, 3, 4, 6554}

\* sample rates of the bounded waveforms
SampleRates == {0, 1, 2, 4, 6}

Missing == [kind |-> "missing", sr |-> 0, data |-> <<>>]
Corrupt == [kind |-> "corrupt", sr |-> 0, data |-> <<>>]
Wave(sr, data) == [kind |-> "wave", sr |-> sr, data |-> data]

SampleSeqs == UNION {[1..n -> Amps] : n \in 0..MaxSamples}

Waveforms == {Wave(sr, d) : sr \in SampleRates, d \in SampleSeqs}

\* 625 samples, 173 + extra of them 4 and the others 3: the mean of
\* |k| / 32768 is (2048 + extra) / (625 * 32768), which is 1e-4 for extra = 0
ThresholdData(extra) == [i \in 1..625 |-> IF i <= 173 + extra THEN 4 ELSE 3]

\* clips at the two thresholds: 625 samples at 1250 Hz last 0.5 s, at
\* 1251 Hz a little less
ThresholdClips ==
    { Wave(1250, ThresholdData(0)), Wave(1250, ThresholdData(-1)),
      Wave(1251, ThresholdData(0)) }

Files == Waveforms \cup ThresholdClips \cup {Missing, Corrupt}

Abs(x) == IF x < 0 THEN -x ELSE x

\* the sum of the |k|: abs(data).sum() * 32768
RECURSIVE SumAbsRange(_, _, _)
SumAbsRange(d, lo, hi) ==
    IF lo > hi THEN 0
    ELSE IF lo = hi THEN Abs(d[lo])
    ELSE LET mid == (lo + hi) \div 2
         IN  SumAbsRange(d, lo, mid) + SumAbsRange(d, mid + 1, hi)

SumAbs(d) == SumAbsRange(d, 1, Len(d))

\* a duration of n / sr seconds; 0.0 is Duration(0, 1)
Duration(n, sr) == [n |-> n, sr |-> sr]

\* a duration test that also rejects a clip of exactly min_sec
TooShort_Inclusive(n, sr, min_ms) == n * 1000 <= min_ms * sr

\* line 69: len(data) / sr < min_sec
TooShort(n, sr, min_ms) == n * 1000 < min_ms * sr

\* line 72: abs(data).mean() < 1e-4, where the mean is
\* SumAbs(data) / (32768 * len(data)) and 32768 * 1e-4 = 2048 / 625
TooQuiet(data) == SumAbs(data) * 625 < 2048 * Len(data)

\* is_audio_valid(path, min_sec) on the file at path: (verdict, duration)
is_audio_valid(file, min_ms) ==
    IF file.kind # "wave" THEN [ok |-> FALSE, duration |-> Duration(0, 1)]
    ELSE IF Len(file.data) = 0 \/ file.sr <= 0
         THEN [ok |-> FALSE, duration |-> Duration(0, 1)]
    ELSE IF TooShort(Len(file.data), file.sr, min_ms)
         THEN [ok |-> FALSE, duration |-> Duration(Len(file.data), file.sr)]
    ELSE IF TooQuiet(file.data)
         THEN [ok |-> FALSE, duration |-> Duration(Len(file.data), file.sr)]
    ELSE [ok |-> TRUE, duration |-> Duration(Len(file.data), file.sr)]

(***************************************************************************)
(* State.                                                                  *)
(***************************************************************************)
VARIABLES
    pc,           \* where the script run (or the function call) stands
    run,          \* script runs started in this session
    mode,         \* "audio" or "text" (the mode radio)
    input_mode,   \* "upload" or "mic" (the audio source radio)
    src_lang,     \* source language code
    tgt_lang,     \* target language code
    text,         \* the text given to translate_via_english
                  \* (edited_text in audio mode, manual_text in text mode)
    file,         \* what is stored at clean_path (at path, for the gate)
    min_sec,      \* is_audio_valid's min_sec, in milliseconds
    raw_exists,   \* the file at raw_path exists
    clean_exists, \* the file at clean_path exists
    made,         \* the temporary files this run created
    leftover,     \* temporary files earlier runs left behind
    verdicts,     \* results of is_audio_valid in this run
    transcripts,  \* outcomes of model.transcribe in this run
    translations, \* results of translate_via_english in this run
    speech,       \* gTTS requests of this run
    ui            \* what the run has rendered

vars == <<pc, run, mode, input_mode, src_lang, tgt_lang, text, file, min_sec,
          raw_exists, clean_exists, made, leftover, verdicts, transcripts,
          translations, speech, ui>>

widgets == <<mode, input_mode, src_lang, tgt_lang>>
disk == <<raw_exists, clean_exists, made, leftover>>

\* no temporary file exists or was left behind
NoFiles ==
    /\ raw_exists = FALSE
    /\ clean_exists = FALSE
    /\ made = {}
    /\ leftover = 0

\* nothing was called or rendered
NoCalls ==
    /\ verdicts = <<>>
    /\ transcripts = <<>>
    /\ translations = <<>>
    /\ speech = <<>>
    /\ ui = {}

(***************************************************************************)
(* translate_via_english on its own: every bounded text and language pair. *)
(***************************************************************************)
InitTranslate ==
    /\ pc = "call"
    /\ run = 1
    /\ mode = "text"
    /\ input_mode = "upload"
    /\ src_lang \in Langs
    /\ tgt_lang \in Langs
    /\ text \in Texts
    /\ file = Missing
    /\ min_sec = DefaultMinSecMs
    /\ NoFiles
    /\ NoCalls

CallTranslate ==
    /\ pc = "call"
    /\ \E b1 \in BackendOutcomes, b2 \in BackendOutcomes :
         translations' =
             <<translate_via_english(text, src_lang, tgt_lang, b1, b2)>>
    /\ pc' = "returned"
    /\ UNCHANGED <<run, widgets, text, file, min_sec, disk, verdicts,
                   transcripts, speech, ui>>

NextTranslate == CallTranslate

SpecTranslate == InitTranslate /\ [][NextTranslate]_vars

(***************************************************************************)
(* is_audio_valid on its own: every bounded file, two thresholds.          *)
(***************************************************************************)
InitGate ==
    /\ pc = "call"
    /\ run = 1
    /\ mode = "audio"
    /\ input_mode = "upload"
    /\ src_lang = "en"
    /\ tgt_lang = "en"
    /\ text = <<>>
    /\ file \in Files
    /\ min_sec \in {DefaultMinSecMs, 2 * DefaultMinSecMs}
    /\ NoFiles
    /\ NoCalls

CallGate ==
    /\ pc = "call"
    /\ verdicts' = <<is_audio_valid(file, min_sec)>>
    /\ pc' = "returned"
    /\ UNCHANGED <<run, widgets, text, file, min_sec, disk, transcripts,
                   translations, speech, ui>>

NextGate == CallGate

SpecGate == InitGate /\ [][NextGate]_vars

(***************************************************************************)
(* The script.  Every user interaction reruns it from the top; a run ends  *)
(* "done" (it reached the end of the script), "stopped" (st.stop()) or     *)
(* "crashed" (an exception reached Streamlit).                             *)
(***************************************************************************)
EndStates == {"idle", "done", "stopped", "crashed"}

\* the converted clip is sampled at a fixed rate (ffmpeg -ar); the model
\* scales the rate down so that whole clips can be enumerated
ConvertedRate == 3

\* sample values k of the clips the pipeline converts (6554 / 32768 = 0.2)
ClipAmps == {0, 6554}

Clips ==
    {Wave(ConvertedRate, d) :
        d \in UNION {[1..n -> ClipAmps] : n \in 0..MaxSamples}}

\* what convert_audio can leave at clean_path: nothing, an undecodable file
\* or a clip
ConvertedFiles == Clips \cup {Missing, Corrupt}

\* the texts Whisper returns and the texts the user puts in a text area
TranscriptTexts == { <<>>, <<LetterA, Space>> }
TypedTexts == { <<Space>>, <<LetterA, Space, Comma>> }

\* model.transcribe: a result, a RuntimeError, or any other exception
RuntimeError == [kind |-> "runtime_error", val |-> <<>>]
TranscribeOutcomes == {Str(t) : t \in TranscriptTexts} \cup {RuntimeError, Raise}

\* the backend's answers the pipeline is followed with
PipelineOutcomes == {Str(<<LetterA>>), Str(<<Space>>), None, Raise}

\* lines 174-176 and 218-220 leave neither file behind
RemoveTempFiles ==
    /\ raw_exists' = FALSE
    /\ clean_exists' = FALSE

\* a new script run: nothing of the previous run is kept, except the files
\* it did not delete
NewRun ==
    /\ pc \in EndStates
    /\ run < MaxRuns
    /\ run' = run + 1
    /\ leftover' = leftover + (IF raw_exists THEN 1 ELSE 0)
                            + (IF clean_exists THEN 1 ELSE 0)
    /\ file' = Missing
    /\ clean_exists' = FALSE
    /\ verdicts' = <<>>
    /\ transcripts' = <<>>
    /\ translations' = <<>>
    /\ speech' = <<>>
    /\ ui' = {}
    /\ UNCHANGED min_sec

\* lines 129-166: audio mode, the widgets, and the raw temporary file when
\* the user has uploaded or recorded something
StartAudio ==
    /\ NewRun
    /\ mode' = "audio"
    /\ src_lang' \in Langs
    /\ tgt_lang' \in Langs
    /\ input_mode' \in {"upload", "mic"}
    /\ text' = <<>>
    /\ \E has_audio \in BOOLEAN :
         IF has_audio
         THEN /\ raw_exists' = TRUE
              /\ made' = {"raw"}
              /\ pc' = "convert"
         ELSE /\ raw_exists' = FALSE
              /\ made' = {}
              /\ pc' = "done"

\* line 169, convert_audio: ffmpeg cannot be started (subprocess.run
\* raises), ffmpeg writes no output (its exit status is ignored), or it
\* writes a file
ConvertAudio ==
    /\ pc = "convert"
    /\ \E started \in BOOLEAN, out \in ConvertedFiles :
         IF ~started
         THEN /\ pc' = "crashed"
              /\ UNCHANGED <<file, clean_exists, made>>
         ELSE /\ pc' = "gate"
              /\ file' = out
              /\ clean_exists' = (out # Missing)
              /\ made' = IF out # Missing THEN made \cup {"clean"} ELSE made
    /\ UNCHANGED <<run, widgets, text, min_sec, raw_exists, leftover,
                   verdicts, transcripts, translations, speech, ui>>

\* a gate whose rejection shows the message but does not stop the run
Gate_NoStop ==
    /\ pc = "gate"
    /\ LET v == is_audio_valid(file, DefaultMinSecMs)
       IN  /\ verdicts' = <<v>>
           /\ pc' = "load_model"
           /\ IF v.ok
              THEN UNCHANGED <<raw_exists, clean_exists, ui>>
              ELSE /\ ui' = ui \cup {"audio_error"}
                   /\ RemoveTempFiles
    /\ UNCHANGED <<run, widgets, text, file, min_sec, made, leftover,
                   transcripts, translations, speech>>

\* lines 170-177: the gate, and on rejection the message, the removal of
\* both files and st.stop()
Gate ==
    /\ pc = "gate"
    /\ LET v == is_audio_valid(file, DefaultMinSecMs)
       IN  /\ verdicts' = <<v>>
           /\ IF v.ok
              THEN /\ pc' = "load_model"
                   /\ UNCHANGED <<raw_exists, clean_exists, ui>>
              ELSE /\ pc' = "stopped"
                   /\ ui' = ui \cup {"audio_error"}
                   /\ RemoveTempFiles
    /\ UNCHANGED <<run, widgets, text, file, min_sec, made, leftover,
                   transcripts, translations, speech>>

\* line 179: load_whisper_model() returns the model or raises
LoadModel ==
    /\ pc = "load_model"
    /\ \E loaded \in BOOLEAN :
         pc' = IF loaded THEN "transcribe" ELSE "crashed"
    /\ UNCHANGED <<run, widgets, text, file, min_sec, disk, verdicts,
                   transcripts, translations, speech, ui>>

\* lines 181-201: model.transcribe, the RuntimeError handler, and the
\* editable text area
Transcribe ==
    /\ pc = "transcribe"
    /\ \E o \in TranscribeOutcomes :
         /\ transcripts' = <<o>>
         /\ IF o.kind = "str"
            THEN /\ pc' = "translate"
                 /\ text' \in {Strip(o.val)} \cup TypedTexts
                 /\ UNCHANGED ui
            ELSE IF o = RuntimeError
            THEN /\ pc' = "stopped"
                 /\ ui' = ui \cup {"whisper_error"}
                 /\ UNCHANGED text
            ELSE /\ pc' = "crashed"
                 /\ UNCHANGED <<text, ui>>
    /\ UNCHANGED <<run, widgets, file, min_sec, disk, verdicts, translations,
                   speech>>

\* lines 203-213 and 242-252: the translate button; after (when pressed and
\* the translation is not empty, the translation and its download buttons)
TranslateButton(after) ==
    \E pressed \in BOOLEAN, b1 \in PipelineOutcomes, b2 \in PipelineOutcomes :
       LET r == translate_via_english(text, src_lang, tgt_lang, b1, b2)
       IN  IF ~pressed
           THEN /\ pc' = after
                /\ UNCHANGED <<translations, ui>>
           ELSE /\ translations' = <<r>>
                /\ IF r.kind = "raise"
                   THEN /\ pc' = "crashed"
                        /\ UNCHANGED ui
                   ELSE IF r.value # <<>>
                   THEN /\ pc' = "speak"
                        /\ ui' = ui \cup {"translation", "download_source",
                                          "download_translation"}
                   ELSE /\ pc' = after
                        /\ UNCHANGED ui

\* lines 203-213
TranslateAudio ==
    /\ pc = "translate"
    /\ TranslateButton("cleanup")
    /\ UNCHANGED <<run, widgets, text, file, min_sec, disk, verdicts,
                   transcripts, speech>>

\* a speech block without its handler: a gTTS failure ends the run
Speak_Propagates ==
    /\ pc = "speak"
    /\ \E ok \in BOOLEAN :
         /\ speech' = <<[text |-> translations[1].value, lang |-> tgt_lang,
                         ok |-> ok]>>
         /\ ui' = ui \cup (IF ok THEN {"audio", "download_audio"} ELSE {})
         /\ pc' = IF ~ok THEN "crashed"
                  ELSE IF mode = "audio" THEN "cleanup" ELSE "done"
    /\ UNCHANGED <<run, widgets, text, file, min_sec, disk, verdicts,
                   transcripts, translations>>

\* lines 108-116 (called at 216 and 255): text_to_speech_block
Speak ==
    /\ pc = "speak"
    /\ \E ok \in BOOLEAN :
         /\ speech' = <<[text |-> translations[1].value, lang |-> tgt_lang,
                         ok |-> ok]>>
         /\ ui' = ui \cup (IF ok THEN {"audio", "download_audio"}
                                 ELSE {"tts_warning"})
    /\ pc' = IF mode = "audio" THEN "cleanup" ELSE "done"
    /\ UNCHANGED <<run, widgets, text, file, min_sec, disk, verdicts,
                   transcripts, translations>>

\* lines 218-220
Cleanup ==
    /\ pc = "cleanup"
    /\ RemoveTempFiles
    /\ pc' = "done"
    /\ UNCHANGED <<run, widgets, text, file, min_sec, made, leftover,
                   verdicts, transcripts, translations, speech, ui>>

\* lines 225-240: text mode and its widgets
StartText ==
    /\ NewRun
    /\ mode' = "text"
    /\ src_lang' \in Langs
    /\ tgt_lang' \in Langs
    /\ text' \in TranscriptTexts \cup TypedTexts
    /\ raw_exists' = FALSE
    /\ made' = {}
    /\ pc' = "text_translate"
    /\ UNCHANGED input_mode

\* lines 242-252
TranslateText ==
    /\ pc = "text_translate"
    /\ TranslateButton("done")
    /\ UNCHANGED <<run, widgets, text, file, min_sec, disk, verdicts,
                   transcripts, speech>>

Init ==
    /\ pc = "idle"
    /\ run = 0
    /\ mode = "audio"
    /\ input_mode = "upload"
    /\ src_lang = "kn"
    /\ tgt_lang = "en"
    /\ text = <<>>
    /\ file = Missing
    /\ min_sec = DefaultMinSecMs
    /\ NoFiles
    /\ NoCalls

Next ==
    \/ StartAudio
    \/ ConvertAudio
    \/ Gate
    \/ LoadModel
    \/ Transcribe
    \/ TranslateAudio
    \/ Speak
    \/ Cleanup
    \/ StartText
    \/ TranslateText

Spec == Init /\ [][Next]_vars

(***************************************************************************)
(* Properties.                                                             *)
(***************************************************************************)
\* s is empty or holds whitespace only
IsBlank(s) == \A i \in 1..Len(s) : IsSpace(s[i])

\* s with its whitespace runs collapsed to one space and its ends trimmed
WsNormalize(s) == Join(<<Space>>, Split(s))

\* the non-whitespace characters of s, in order
NonSpace(s) == SelectSeq(s, LAMBDA c : ~IsSpace(c))

\* s has no whitespace at either end, no two adjacent whitespace characters
\* and no whitespace directly before a comma or a period
IsCleaned(s) ==
    /\ s # <<>> => ~IsSpace(s[1]) /\ ~IsSpace(s[Len(s)])
    /\ \A i \in 1..(Len(s) - 1) :
         IsSpace(s[i]) => ~IsSpace(s[i + 1]) /\ s[i + 1] \notin {Comma, Period}

\* the call of translate_via_english has returned (or raised)
TranslateDone == pc = "returned" /\ translations # <<>>

\* C1: for every empty or whitespace-only text and every language pair,
\* translate_via_english returns "" and calls the backend zero times.
C1_BlankReturnsEmpty ==
    TranslateDone /\ IsBlank(text) =>
        /\ translations[1].kind = "return"
        /\ translations[1].value = <<>>
        /\ translations[1].calls = <<>>

\* a whitespace-only text (a space and a tab) between two non-English
\* languages came back empty
C1_Witness ==
    /\ TranslateDone
    /\ text = <<Space, Tab>>
    /\ src_lang = "hi"
    /\ tgt_lang = "kn"
    /\ translations[1].value = <<>>

\* some backend call of the finished translation raised or returned a
\* value that is not a str
SomeLegFailed ==
    \E i \in 1..Len(translations[1].calls) :
        translations[1].calls[i].outcome.kind \in {"raise", "none"}

\* C2: for every non-empty text and language pair, when the backend fails
\* on either leg or returns a non-string, translate_via_english returns ""
\* and no exception leaves it.
C2_FailureReturnsEmpty ==
    TranslateDone /\ ~IsBlank(text) =>
        /\ translations[1].kind = "return"
        /\ SomeLegFailed => translations[1].value = <<>>

\* the first leg answered and the second leg raised
C2_Witness ==
    /\ TranslateDone
    /\ Len(translations[1].calls) = 2
    /\ translations[1].calls[1].outcome.kind = "str"
    /\ translations[1].calls[2].outcome.kind = "raise"
    /\ translations[1].value = <<>>

\* C3 as claimed: for every language c and non-empty text,
\* translate_via_english(text, c, c) returns the text whitespace-normalized,
\* whatever the backend returns.
C3_IdentityForSameLanguage ==
    TranslateDone /\ ~IsBlank(text) /\ src_lang = tgt_lang =>
        /\ translations[1].kind = "return"
        /\ translations[1].value = WsNormalize(text)

\* C3, amended: for source = target = English and non-empty text the
\* backend is not called and the result is the text with a space directly
\* before a comma or period deleted and the whitespace normalized, so its
\* non-whitespace characters are those of the text; for source = target = c
\* other than English the text goes through c -> en and en -> c, and the
\* result is "" or the cleaned answer of the second call.
C3_SameLanguage ==
    TranslateDone /\ ~IsBlank(text) /\ src_lang = tgt_lang =>
        LET r == translations[1]
        IN  /\ r.kind = "return"
            /\ IF src_lang = "en"
               THEN /\ r.calls = <<>>
                    /\ NonSpace(r.value) = NonSpace(text)
                    /\ r.value =
                         WsNormalize(
                             Replace(Replace(text, <<Space, Comma>>, <<Comma>>),
                                     <<Space, Period>>, <<Period>>))
               ELSE /\ r.calls # <<>>
                    /\ r.calls[1].source = src_lang
                    /\ r.calls[1].target = "en"
                    /\ \/ r.value = <<>>
                       \/ /\ Len(r.calls) = 2
                          /\ r.calls[2].outcome.kind = "str"
                          /\ r.value = Clean(r.calls[2].outcome.val)

\* English to English, a text with a space before its comma: the space is
\* gone from the result and the backend was not called
C3_Witness ==
    /\ TranslateDone
    /\ src_lang = "en"
    /\ tgt_lang = "en"
    /\ text = <<LetterA, Space, Comma>>
    /\ translations[1].value = <<LetterA, Comma>>
    /\ translations[1].calls = <<>>

\* C6: whatever the backend returns, the string translate_via_english
\* returns has no whitespace at its ends, no run of two whitespace
\* characters and no whitespace directly before a comma or a period.
C6_ResultIsCleaned ==
    TranslateDone /\ translations[1].calls # <<>> =>
        IsCleaned(translations[1].value)

\* C7: on non-empty text the backend is called at most twice and never
\* retried: a source -> en call happens iff the source is not English, an
\* en -> target call iff the target is not English and the first leg did not
\* fail, the source -> en call comes first, the second call is given the
\* first call's output, and every call has English on one side.
C7_CallDiscipline ==
    TranslateDone /\ ~IsBlank(text) =>
        LET c == translations[1].calls
            ToEnglish(i) == c[i].source = src_lang /\ c[i].target = "en"
                            /\ src_lang # "en"
            FromEnglish(i) == c[i].source = "en" /\ c[i].target = tgt_lang
                              /\ tgt_lang # "en"
            firstFailed == src_lang # "en" /\ c # <<>>
                           /\ c[1].outcome.kind = "raise"
        IN  /\ Len(c) <= 2
            /\ \A i \in 1..Len(c) : c[i].source = "en" \/ c[i].target = "en"
            /\ \A i \in 1..Len(c) : ToEnglish(i) \/ FromEnglish(i)
            /\ (\E i \in 1..Len(c) : ToEnglish(i)) <=> src_lang # "en"
            /\ (\E i \in 1..Len(c) : FromEnglish(i))
                   <=> (tgt_lang # "en" /\ ~firstFailed)
            /\ \A i, j \in 1..Len(c) :
                   ToEnglish(i) /\ FromEnglish(j) => i < j
            /\ c # <<>> => c[1].input = Str(text)
            /\ Len(c) = 2 => c[2].input = c[1].outcome

\* both legs ran, and the second one was given the first one's answer,
\* which differs from the caller's text
C7_Witness ==
    /\ TranslateDone
    /\ src_lang = "hi"
    /\ tgt_lang = "kn"
    /\ Len(translations[1].calls) = 2
    /\ translations[1].calls[1].outcome.kind = "str"
    /\ translations[1].calls[1].outcome # Str(text)
    /\ translations[1].calls[2].input = translations[1].calls[1].outcome

\* the call of is_audio_valid has returned
GateDone == pc = "returned" /\ verdicts # <<>>

\* C4: for a decoded waveform with a positive sample rate and the default
\* min_sec, is_audio_valid says valid exactly when samples / rate >= 0.5 s
\* and the mean absolute amplitude (the mean of the |k| / 32768) >= 1e-4; a clip
\* under 0.5 s is invalid whatever its amplitude, and both boundary values
\* are valid.
C4_ValidIffLongAndLoud ==
    GateDone /\ file.kind = "wave" /\ file.sr > 0 /\ min_sec = 500 =>
        /\ verdicts[1].ok <=>
               /\ 2 * Len(file.data) >= file.sr
               /\ 10000 * SumAbs(file.data) >= 32768 * Len(file.data)
        /\ 2 * Len(file.data) < file.sr => ~verdicts[1].ok

\* a clip of exactly 0.5 s whose mean absolute amplitude is exactly 1e-4
\* was found valid
C4_Witness ==
    /\ GateDone
    /\ min_sec = 500
    /\ file.kind = "wave"
    /\ file.sr > 0
    /\ 2 * Len(file.data) = file.sr
    /\ 10000 * SumAbs(file.data) = 32768 * Len(file.data)
    /\ verdicts[1].ok

\* C5: transcription is invoked only after the gate returned valid; when
\* the gate rejects the clip (also when decoding fails or the converted file
\* is missing) the run shows the error message and stops, with no call of
\* transcription or translation and no uncaught exception.
C5_GateBeforeTranscription ==
    /\ transcripts # <<>> \/ pc \in {"load_model", "transcribe"} =>
           verdicts # <<>> /\ verdicts[1].ok
    /\ verdicts # <<>> /\ ~verdicts[1].ok =>
           /\ pc = "stopped"
           /\ "audio_error" \in ui
           /\ transcripts = <<>>
           /\ translations = <<>>

\* the conversion wrote no file, the gate rejected it and the run stopped
C5_Witness ==
    /\ pc = "stopped"
    /\ file = Missing
    /\ verdicts # <<>>
    /\ ~verdicts[1].ok
    /\ "audio_error" \in ui

\* C8: a run that created the raw and the converted file ends with both
\* deleted on every exit path: gate rejection, a transcription failure
\* (the caught RuntimeError or any other exception), a translation or
\* synthesis failure, and normal completion.
C8_TempFilesDeleted ==
    /\ made = {"raw", "clean"}
    /\ \/ pc \in {"done", "stopped"}
       \/ pc = "crashed" /\ transcripts # <<>>
    => ~raw_exists /\ ~clean_exists

\* C9: speech synthesis is requested only after translate_via_english
\* returned a non-empty string; a synthesis failure becomes a warning and
\* does not end the run: the translation and its download buttons stay
\* rendered and, in audio mode, the cleanup after the translate step runs.
C9_SpeechAfterTranslation ==
    speech # <<>> =>
        /\ translations # <<>>
        /\ translations[1].kind = "return"
        /\ translations[1].value # <<>>
        /\ speech[1].text = translations[1].value
        /\ pc \notin {"crashed", "stopped"}
        /\ {"translation", "download_source", "download_translation"}
               \subseteq ui
        /\ ~speech[1].ok => "tts_warning" \in ui
        /\ mode = "audio" =>
               \/ pc = "cleanup"
               \/ pc = "done" /\ ~raw_exists /\ ~clean_exists
        /\ mode = "text" => pc = "done"

\* audio mode: synthesis failed, the warning is shown, the run reached its
\* end and both temporary files are gone
C9_Witness ==
    /\ speech # <<>>
    /\ ~speech[1].ok
    /\ "tts_warning" \in ui
    /\ mode = "audio"
    /\ pc = "done"
    /\ made = {"raw", "clean"}
    /\ ~raw_exists
    /\ ~clean_exists

\* C10: in microphone mode a recording whose converted clip is shorter than
\* 1 second is rejected by the gate and never reaches transcription.
C10_MicClipUnderOneSecondRejected ==
    /\ mode = "audio"
    /\ input_mode = "mic"
    /\ file.kind = "wave"
    /\ file.sr > 0
    /\ Len(file.data) < file.sr
    => /\ transcripts = <<>>
       /\ pc \notin {"load_model", "transcribe"}

====
